---- MODULE Spec2Model ----
(***************************************************************************)
(* Model of the CSV-backed vehicle finance application (src/app.py):       *)
(* the vehicle/buyer store (full.csv), the installment store (emi.csv)     *)
(* and the request handlers that change them.  Each handler is one action. *)
(* A CSV field is a string in the program; here a numeric field is the     *)
(* integer it spells, the empty string is Blank, and an ISO date is the    *)
(* integer YYYYMMDD that its digits spell.  Free-text fields (names,       *)
(* phone, address, record number, sale value) never influence the          *)
(* installment logic and are left out of the rows.                         *)
(***************************************************************************)
EXTENDS Integers, Sequences, FiniteSets, TLC

VARIABLES
    full,    \* rows of full.csv, in file order
    emi,     \* rows of emi.csv, in file order
    today,   \* the current calendar date, <<year, month, day>>
    last,    \* history: the last completed request and its arguments
    nreq,    \* number of steps (requests and clock ticks) taken so far
    origin,  \* history: installment id -> vehicle id named by the request that created it
    nin,     \* input of a pure-function harness
    nout,    \* output of a pure-function harness
    threads, \* request threads of the server: position and local copies of the rows
    users,   \* rows of users.csv, in file order
    session  \* the signed session cookie held by each browser

vars == <<full, emi, today, last, nreq, origin, nin, nout, threads, users, session>>

----------------------------------------------------------------------------
(* Bounds of the model *)

MaxVehicles == 2
MaxTenure == 2
MaxAmount == 1
MaxEmis == 3
MaxEmiId == 4
MaxBuyerId == 3
MaxSteps == 5

(* The empty CSV field "" *)
Blank == -1

VehicleIds == 1..MaxVehicles
RawFinance == 0..1
RawAmounts == 0..MaxAmount
RawTenures == 0..MaxTenure
EmiIds == 1..MaxEmiId

(* Dates the clock takes, in order, and sale dates an operator submits *)
Calendar == << <<2024, 1, 31>>, <<2024, 6, 20>> >>
SaleDateInputs == {Blank, 20240115}

----------------------------------------------------------------------------
(* Helpers *)

Max2(a, b) == IF a >= b THEN a ELSE b
Min2(a, b) == IF a <= b THEN a ELSE b

to_int(value) == IF value = Blank THEN 0 ELSE value

RECURSIVE next_id_from(_, _, _, _)
next_id_from(rows, key, i, max_id) ==
    IF i > Len(rows) THEN max_id + 1
    ELSE next_id_from(rows, key, i + 1, Max2(max_id, to_int(rows[i][key])))

(* mutant: the next id is the number of rows plus one *)
next_id_by_count(rows, key) == Len(rows) + 1

next_id(rows, key) == next_id_from(rows, key, 1, 0)

(* mutant: the cash-sale rule is forgotten *)
normalize_without_cash_rule(finance_amount, emi_amount, tenure) ==
    << Max2(finance_amount, 0), Max2(emi_amount, 0), Max2(tenure, 0) >>

normalize_finance_terms(finance_amount, emi_amount, tenure) ==
    LET f == Max2(finance_amount, 0)
        e == Max2(emi_amount, 0)
        t == Max2(tenure, 0)
    IN  IF f = 0 THEN <<0, 0, 0>> ELSE <<f, e, t>>

IsLeap(y) == (y % 4 = 0 /\ y % 100 # 0) \/ y % 400 = 0

DaysInMonth(y, m) ==
    IF m = 2 THEN (IF IsLeap(y) THEN 29 ELSE 28)
    ELSE IF m \in {4, 6, 9, 11} THEN 30 ELSE 31

isoformat(d) == d[1] * 10000 + d[2] * 100 + d[3]

strptime(s) == << s \div 10000, (s \div 100) % 100, s % 100 >>

ValidIso(s) ==
    /\ s # Blank
    /\ LET d == strptime(s)
       IN  /\ d[1] >= 1
           /\ d[2] \in 1..12
           /\ d[3] \in 1..DaysInMonth(d[1], d[2])

add_months(orig_date, months) ==
    LET total == (orig_date[2] - 1) + months
        y == orig_date[1] + (total \div 12)
        m == (total % 12) + 1
    IN  << y, m, Min2(orig_date[3], DaysInMonth(y, m)) >>

NoRow == [vehicle_id |-> 0, status |-> "", buyer_id |-> Blank,
          finance_amount |-> Blank, emi_amount |-> Blank, tenure |-> Blank,
          sale_date |-> Blank]

(* index of the first row of full.csv whose vehicle_id is vid, 0 if none *)
RowIndex(rows, vid) ==
    IF \E i \in 1..Len(rows) : to_int(rows[i].vehicle_id) = vid
    THEN CHOOSE i \in 1..Len(rows) :
            /\ to_int(rows[i].vehicle_id) = vid
            /\ \A j \in 1..(i - 1) : to_int(rows[j].vehicle_id) # vid
    ELSE 0

(* index of the first row of emi.csv whose id is emi_id, 0 if none *)
EmiIndex(rows, emi_id) ==
    IF \E i \in 1..Len(rows) : to_int(rows[i].id) = emi_id
    THEN CHOOSE i \in 1..Len(rows) :
            /\ to_int(rows[i].id) = emi_id
            /\ \A j \in 1..(i - 1) : to_int(rows[j].id) # emi_id
    ELSE 0

(* mutant: the due dates are counted from the current date *)
RECURSIVE GenerateEmisFromToday(_, _, _, _, _, _)
GenerateEmisFromToday(rows, buyer_id, lo, hi, sd, amount) ==
    IF lo > hi THEN rows
    ELSE GenerateEmisFromToday(
            Append(rows, [id |-> next_id(rows, "id"),
                          buyer_id |-> buyer_id,
                          emi_no |-> lo,
                          due_date |-> isoformat(add_months(today, lo)),
                          amount |-> amount,
                          status |-> "Unpaid",
                          paid_date |-> Blank]),
            buyer_id, lo + 1, hi, sd, amount)

(* mutant: the loop stops one installment short *)
RECURSIVE GenerateEmisShort(_, _, _, _, _, _)
GenerateEmisShort(rows, buyer_id, lo, hi, sd, amount) ==
    IF lo >= hi THEN rows
    ELSE GenerateEmisShort(
            Append(rows, [id |-> next_id(rows, "id"),
                          buyer_id |-> buyer_id,
                          emi_no |-> lo,
                          due_date |-> isoformat(add_months(sd, lo)),
                          amount |-> amount,
                          status |-> "Unpaid",
                          paid_date |-> Blank]),
            buyer_id, lo + 1, hi, sd, amount)

(* mutant: each due date is one month after the previous due date *)
RECURSIVE GenerateEmisChained(_, _, _, _, _, _)
GenerateEmisChained(rows, buyer_id, lo, hi, sd, amount) ==
    IF lo > hi THEN rows
    ELSE GenerateEmisChained(
            Append(rows, [id |-> next_id(rows, "id"),
                          buyer_id |-> buyer_id,
                          emi_no |-> lo,
                          due_date |-> isoformat(add_months(sd, 1)),
                          amount |-> amount,
                          status |-> "Unpaid",
                          paid_date |-> Blank]),
            buyer_id, lo + 1, hi, add_months(sd, 1), amount)

(* the installment rows appended for emi_no lo..hi, each with the next free id *)
RECURSIVE GenerateEmis(_, _, _, _, _, _)
GenerateEmis(rows, buyer_id, lo, hi, sd, amount) ==
    IF lo > hi THEN rows
    ELSE GenerateEmis(
            Append(rows, [id |-> next_id(rows, "id"),
                          buyer_id |-> buyer_id,
                          emi_no |-> lo,
                          due_date |-> isoformat(add_months(sd, lo)),
                          amount |-> amount,
                          status |-> "Unpaid",
                          paid_date |-> Blank]),
            buyer_id, lo + 1, hi, sd, amount)

(* mutant: paid installments are repriced too *)
RepriceAll(rows, buyer_id, amount) ==
    [i \in 1..Len(rows) |->
        IF rows[i].buyer_id = buyer_id
        THEN [rows[i] EXCEPT !.amount = amount]
        ELSE rows[i]]

RepriceUnpaid(rows, buyer_id, amount) ==
    [i \in 1..Len(rows) |->
        IF rows[i].buyer_id = buyer_id /\ rows[i].status # "Paid"
        THEN [rows[i] EXCEPT !.amount = amount]
        ELSE rows[i]]

(* mutant: the tail is removed whether paid or not *)
RemoveTail(rows, buyer_id, new_tenure) ==
    SelectSeq(rows, LAMBDA r :
        ~(r.buyer_id = buyer_id /\ to_int(r.emi_no) > new_tenure))

(* mutant: the shrink removes the unpaid tail of every buyer *)
RemoveUnpaidTailAnyBuyer(rows, buyer_id, new_tenure) ==
    LET Keep(r) == ~(r.emi_no > new_tenure /\ r.status # "Paid")
    IN  SelectSeq(rows, Keep)

RemoveUnpaidTail(rows, buyer_id, new_tenure) ==
    SelectSeq(rows, LAMBDA r :
        ~(r.buyer_id = buyer_id /\ to_int(r.emi_no) > new_tenure /\ r.status # "Paid"))

(* mutant: the grow step starts at the old tenure instead of after it *)
ReconcileEmisRegrow(rows, buyer_id, old_tenure, old_emi_amount, new_tenure, new_emi_amount, sale_date) ==
    LET repriced == IF new_emi_amount # old_emi_amount
                    THEN RepriceUnpaid(rows, buyer_id, new_emi_amount)
                    ELSE rows
    IN  IF new_tenure >= old_tenure
        THEN GenerateEmis(repriced, buyer_id, old_tenure, new_tenure,
                          sale_date, new_emi_amount)
        ELSE RemoveUnpaidTail(repriced, buyer_id, new_tenure)

(* the schedule adjustments of a buyer edit: reprice, then grow or shrink *)
ReconcileEmis(rows, buyer_id, old_tenure, old_emi_amount, new_tenure, new_emi_amount, sale_date) ==
    LET repriced == IF new_emi_amount # old_emi_amount
                    THEN RepriceUnpaid(rows, buyer_id, new_emi_amount)
                    ELSE rows
    IN  IF new_tenure > old_tenure
        THEN GenerateEmis(repriced, buyer_id, old_tenure + 1, new_tenure,
                          sale_date, new_emi_amount)
        ELSE IF new_tenure < old_tenure
        THEN RemoveUnpaidTail(repriced, buyer_id, new_tenure)
        ELSE repriced

(* the bounds on the stored installments: row count and largest id *)
WithinBounds(rows) ==
    /\ Len(rows) <= MaxEmis
    /\ \A i \in 1..Len(rows) : rows[i].id <= MaxEmiId

(* one more step (a request, or the clock moving on) is taken *)
Step ==
    /\ nreq < MaxSteps
    /\ nreq' = nreq + 1

(* history bookkeeping *)
NoLast == [op |-> "none", vid |-> 0, emi_id |-> 0, action |-> "",
           terms |-> <<0, 0, 0>>, buyer_id |-> 0,
           old_tenure |-> 0, old_emi_amount |-> 0, sale_date |-> Blank,
           who |-> 0]

Stamp(op, vid) == [NoLast EXCEPT !.op = op, !.vid = vid]

NewOrigin(new_emis, vid) ==
    [id \in EmiIds |->
        IF \E i \in 1..Len(new_emis) : new_emis[i].id = id
        THEN (IF \E i \in 1..Len(emi) : emi[i].id = id THEN origin[id] ELSE vid)
        ELSE 0]

(* the accounts users.csv is seeded with, and the browsers that may hold a  *)
(* session cookie; a browser that is not logged in has an empty session      *)
SeedUsers == << [id |-> 1, role |-> "admin"],
                [id |-> 2, role |-> "admin"],
                [id |-> 3, role |-> "user"] >>

Clients == {1, 2}

NoSession == [user_id |-> 0, role |-> ""]

NoSessions == [c \in Clients |-> NoSession]

(* the request threads of the server (Flask serves each request in its own *)
(* thread); a thread not serving a request is idle                           *)
Workers == {1, 2}

IdleThread == [pc |-> "idle", op |-> "none", vid |-> 0, emi_id |-> 0, action |-> "",
               terms |-> <<0, 0, 0>>, buyer_id |-> 0, old_tenure |-> 0,
               old_emi_amount |-> 0, sale_date |-> Blank, created |-> FALSE,
               rows |-> << >>, emis_rows |-> << >>,
               pre_full |-> << >>, pre_emi |-> << >>, crashed |-> FALSE]

IdleThreads == [t \in Workers |-> IdleThread]

----------------------------------------------------------------------------
Init ==
    /\ full = << >>
    /\ emi = << >>
    /\ today = Calendar[1]
    /\ last = NoLast
    /\ nreq = 0
    /\ origin = [id \in EmiIds |-> 0]
    /\ nin = <<0, 0, 0>>
    /\ nout = <<0, 0, 0>>
    /\ threads = IdleThreads
    /\ users = SeedUsers
    /\ session = NoSessions

(* the clock moves on to the next date *)
Tick ==
    /\ \E k \in 1..(Len(Calendar) - 1) :
          /\ today = Calendar[k]
          /\ today' = Calendar[k + 1]
    /\ Step
    /\ last' = Stamp("tick", 0)
    /\ UNCHANGED <<full, emi, origin, nin, nout, threads, users, session>>

add_vehicle ==
    /\ Step
    /\ Len(full) < MaxVehicles
    /\ full' = Append(full, [NoRow EXCEPT !.vehicle_id = next_id(full, "vehicle_id"),
                                          !.status = "Stock"])
    /\ last' = Stamp("add_vehicle", next_id(full, "vehicle_id"))
    /\ UNCHANGED <<emi, today, origin, nin, nout, threads, users, session>>

delete_vehicle(vid) ==
    LET buyer_ids == {full[i].buyer_id : i \in {j \in 1..Len(full) :
                          to_int(full[j].vehicle_id) = vid /\ full[j].buyer_id # Blank}}
        rows == SelectSeq(full, LAMBDA r : to_int(r.vehicle_id) # vid)
        emis == IF buyer_ids # {}
                THEN SelectSeq(emi, LAMBDA r : r.buyer_id \notin buyer_ids)
                ELSE emi
    IN  /\ Step
        /\ full' = rows
        /\ emi' = emis
        /\ last' = Stamp("delete_vehicle", vid)
        /\ origin' = NewOrigin(emis, vid)
        /\ UNCHANGED <<today, nin, nout, threads, users, session>>

sell_vehicle(vid, raw_finance, raw_emi, raw_tenure, form_date) ==
    LET k == RowIndex(full, vid)
        terms == normalize_finance_terms(raw_finance, raw_emi, raw_tenure)
        sale_date == IF form_date # Blank THEN form_date ELSE isoformat(today)
        buyer_id == next_id(full, "buyer_id")
        rows == [full EXCEPT ![k] = [@ EXCEPT !.finance_amount = terms[1],
                                             !.emi_amount = terms[2],
                                             !.tenure = terms[3],
                                             !.sale_date = sale_date,
                                             !.buyer_id = buyer_id,
                                             !.status = "Sold"]]
        emis == GenerateEmis(emi, buyer_id, 1, terms[3], strptime(sale_date), terms[2])
    IN  IF k = 0
        THEN /\ Step
             /\ last' = Stamp("sell_missing", vid)
             /\ UNCHANGED <<full, emi, today, origin, nin, nout, threads, users, session>>
        ELSE /\ Step
             /\ WithinBounds(emis)
             /\ buyer_id <= MaxBuyerId
             /\ ValidIso(sale_date)
             /\ full' = rows
             /\ emi' = emis
             /\ last' = [Stamp("sell_vehicle", vid) EXCEPT !.terms = terms,
                                                           !.buyer_id = buyer_id,
                                                           !.sale_date = sale_date]
             /\ origin' = NewOrigin(emis, vid)
             /\ UNCHANGED <<today, nin, nout, threads, users, session>>

edit_buyer(vid, raw_finance, raw_emi, raw_tenure) ==
    LET k == RowIndex(full, vid)
        has_buyer == k # 0 /\ full[k].buyer_id # Blank
        terms == normalize_finance_terms(raw_finance, raw_emi, raw_tenure)
        new_emi_amount == terms[2]
        new_tenure == terms[3]
        \* no buyer yet: create one, dated today
        created_date == isoformat(today)
        created_id == next_id(full, "buyer_id")
        created_rows ==
            IF k # 0
            THEN [full EXCEPT ![k] = [@ EXCEPT !.buyer_id = created_id,
                                              !.finance_amount = terms[1],
                                              !.tenure = new_tenure,
                                              !.emi_amount = new_emi_amount,
                                              !.sale_date = created_date]]
            ELSE full
        created_emis == GenerateEmis(emi, created_id, 1, new_tenure,
                                     strptime(created_date), new_emi_amount)
        \* buyer exists: update the terms and adjust the schedule
        buyer_id == to_int(full[k].buyer_id)
        old_tenure == to_int(full[k].tenure)
        old_emi_amount == to_int(full[k].emi_amount)
        sale_date_str == IF full[k].sale_date # Blank THEN full[k].sale_date
                         ELSE isoformat(today)
        sale_date == strptime(sale_date_str)
        rows == [full EXCEPT ![k] = [@ EXCEPT !.finance_amount = terms[1],
                                             !.emi_amount = new_emi_amount,
                                             !.tenure = new_tenure]]
        emis == ReconcileEmis(emi, buyer_id, old_tenure, old_emi_amount,
                              new_tenure, new_emi_amount, sale_date)
    IN  IF ~has_buyer
        THEN /\ Step
             /\ WithinBounds(created_emis)
             /\ created_id <= MaxBuyerId
             /\ full' = created_rows
             /\ emi' = created_emis
             /\ last' = [Stamp("create_buyer", vid) EXCEPT !.terms = terms,
                                                           !.buyer_id = created_id,
                                                           !.sale_date = created_date]
             /\ origin' = NewOrigin(created_emis, vid)
             /\ UNCHANGED <<today, nin, nout, threads, users, session>>
        ELSE /\ Step
             /\ WithinBounds(emis)
             /\ ValidIso(sale_date_str)
             /\ full' = rows
             /\ emi' = emis
             /\ last' = [Stamp("edit_buyer", vid) EXCEPT !.terms = terms,
                                                         !.buyer_id = buyer_id,
                                                         !.old_tenure = old_tenure,
                                                         !.old_emi_amount = old_emi_amount,
                                                         !.sale_date = sale_date_str]
             /\ origin' = NewOrigin(emis, vid)
             /\ UNCHANGED <<today, nin, nout, threads, users, session>>

(* mutant: marking unpaid leaves the paid date in place *)
toggle_emi_keep_date(emi_id, action) ==
    LET k == EmiIndex(emi, emi_id)
        emis == IF k = 0 THEN emi
                ELSE IF action = "mark_paid"
                THEN [emi EXCEPT ![k] = [@ EXCEPT !.status = "Paid",
                                                 !.paid_date = isoformat(today)]]
                ELSE [emi EXCEPT ![k] = [@ EXCEPT !.status = "Unpaid"]]
    IN  /\ Step
        /\ emi' = emis
        /\ last' = [Stamp("toggle_emi", 0) EXCEPT !.emi_id = emi_id, !.action = action]
        /\ UNCHANGED <<full, today, origin, nin, nout, threads, users, session>>

toggle_emi(emi_id, action) ==
    LET k == EmiIndex(emi, emi_id)
        emis == IF k = 0 THEN emi
                ELSE IF action = "mark_paid"
                THEN [emi EXCEPT ![k] = [@ EXCEPT !.status = "Paid",
                                                 !.paid_date = isoformat(today)]]
                ELSE [emi EXCEPT ![k] = [@ EXCEPT !.status = "Unpaid",
                                                 !.paid_date = Blank]]
    IN  /\ Step
        /\ emi' = emis
        /\ last' = [Stamp("toggle_emi", 0) EXCEPT !.emi_id = emi_id, !.action = action]
        /\ UNCHANGED <<full, today, origin, nin, nout, threads, users, session>>

ToggleActions == {"mark_paid", "mark_unpaid"}

Next ==
    \/ Tick
    \/ add_vehicle
    \/ \E vid \in VehicleIds : delete_vehicle(vid)
    \/ \E vid \in VehicleIds, f \in RawFinance, e \in RawAmounts, t \in RawTenures,
          d \in SaleDateInputs : sell_vehicle(vid, f, e, t, d)
    \/ \E vid \in VehicleIds, f \in RawFinance, e \in RawAmounts, t \in RawTenures :
          edit_buyer(vid, f, e, t)
    \/ \E emi_id \in EmiIds, action \in ToggleActions : toggle_emi(emi_id, action)

Spec == Init /\ [][Next]_vars

----------------------------------------------------------------------------
(* The status shown for an installment, and the dashboard that uses it.     *)

(* the value of parse_iso_date for an absent or unparsable date *)
NoDate == << >>

parse_iso_date(value) == IF ValidIso(value) THEN strptime(value) ELSE NoDate

(* str.strip().lower() on the status strings that occur *)
strip_lower(s) ==
    CASE s \in {"Paid", "paid", " PAID "} -> "paid"
      [] s = "Unpaid" -> "unpaid"
      [] s = "Overdue" -> "overdue"
      [] OTHER -> s

(* mutant: the due date is looked at before the paid mark *)
derive_emi_status_due_first(emi_row, as_of) ==
    LET due_date == parse_iso_date(emi_row.due_date)
    IN  IF due_date # NoDate /\ isoformat(due_date) < isoformat(as_of) THEN "Overdue"
        ELSE IF strip_lower(emi_row.status) = "paid" THEN "Paid"
        ELSE IF due_date = NoDate THEN "Unpaid"
        ELSE IF isoformat(due_date) > isoformat(as_of) THEN "Upcoming"
        ELSE "Due Today"

derive_emi_status(emi_row, as_of) ==
    IF strip_lower(emi_row.status) = "paid" THEN "Paid"
    ELSE LET due_date == parse_iso_date(emi_row.due_date)
         IN  IF due_date = NoDate THEN "Unpaid"
             ELSE IF isoformat(due_date) < isoformat(as_of) THEN "Overdue"
             ELSE IF isoformat(due_date) > isoformat(as_of) THEN "Upcoming"
             ELSE "Due Today"

(* dashboard: the buyers with an overdue installment, the EMI pending count *)
(* and the vehicles listed under a metric (one vehicle type, empty search)  *)
overdue_buyer_ids(emi_rows) ==
    {emi_rows[i].buyer_id :
        i \in {j \in 1..Len(emi_rows) : derive_emi_status(emi_rows[j], today) = "Overdue"}}

emi_pending(rows, emi_rows) ==
    Cardinality({k \in 1..Len(rows) :
                    /\ rows[k].status = "Sold"
                    /\ rows[k].buyer_id # Blank
                    /\ rows[k].buyer_id \in overdue_buyer_ids(emi_rows)})

filtered_vehicle_rows(rows, metric, overdue) ==
    {k \in 1..Len(rows) :
        /\ metric = "Stock" => rows[k].status = "Stock"
        /\ metric = "Sold" => rows[k].status = "Sold"
        /\ metric = "EMI_PENDING" => (rows[k].status = "Sold" /\ rows[k].buyer_id \in overdue)
        /\ metric = "ALL" => rows[k].status \in {"Stock", "Sold"}}

(* Harness for the pure function derive_emi_status: the stored status, the  *)
(* stored due date and the current date are drawn in the initial state and  *)
(* one step applies the function.                                            *)
StatusInputs == {"Paid", "paid", " PAID ", "Unpaid", "Overdue", ""}
DueInputs == {Blank, 20240230, 20231301, 20231231, 20240130, 20240131,
              20240201, 20240620, 20240621}

InitStatus ==
    /\ full = << >>
    /\ emi = << >>
    /\ today \in {Calendar[i] : i \in 1..Len(Calendar)}
    /\ last = NoLast
    /\ nreq = 0
    /\ origin = [id \in EmiIds |-> 0]
    /\ nin \in StatusInputs \X DueInputs
    /\ nout = ""
    /\ threads = IdleThreads
    /\ users = SeedUsers
    /\ session = NoSessions

ProjectStatus ==
    /\ nout = ""
    /\ nout' = derive_emi_status([status |-> nin[1], due_date |-> nin[2]], today)
    /\ UNCHANGED <<full, emi, today, last, nreq, origin, nin, threads, users, session>>

NextStatus == ProjectStatus

SpecStatus == InitStatus /\ [][NextStatus]_vars

----------------------------------------------------------------------------
(* Harness for the schedule of a sale: one vehicle in stock, and one step   *)
(* sells it on a date and with a tenure drawn from sets that include month  *)
(* ends, a leap day and the turn of the year.                                *)

ScheduleSaleDates == {20240131, 20231130, 20240229, 20241231, 20230131,
                      20240531, 20240115, 20240830, 20231031, 20240330}
ScheduleTenures == 0..(MaxTenure + 1)

InitSchedule ==
    /\ full = << [NoRow EXCEPT !.vehicle_id = 1, !.status = "Stock"] >>
    /\ emi = << >>
    /\ today \in {Calendar[i] : i \in 1..Len(Calendar)}
    /\ last = NoLast
    /\ nreq = 0
    /\ origin = [id \in EmiIds |-> 0]
    /\ nin = <<0, 0, 0>>
    /\ nout = <<0, 0, 0>>
    /\ threads = IdleThreads
    /\ users = SeedUsers
    /\ session = NoSessions

SellFromStock(raw_emi, raw_tenure, form_date) ==
    /\ full[1].status = "Stock"
    /\ sell_vehicle(1, 1, raw_emi, raw_tenure, form_date)

NextSchedule ==
    \E e \in RawAmounts, t \in ScheduleTenures, d \in ScheduleSaleDates :
        SellFromStock(e, t, d)

SpecSchedule == InitSchedule /\ [][NextSchedule]_vars

----------------------------------------------------------------------------
(* Harness for the pure function normalize_finance_terms: the inputs are    *)
(* drawn in the initial state and one step applies the function.            *)

NormInputs == (0 - MaxAmount - 1)..(MaxAmount + 1)

InitNorm ==
    /\ full = << >>
    /\ emi = << >>
    /\ today = Calendar[1]
    /\ last = NoLast
    /\ nreq = 0
    /\ origin = [id \in EmiIds |-> 0]
    /\ nin \in NormInputs \X NormInputs \X NormInputs
    /\ nout = << >>
    /\ threads = IdleThreads
    /\ users = SeedUsers
    /\ session = NoSessions

Normalize ==
    /\ nout = << >>
    /\ nout' = normalize_finance_terms(nin[1], nin[2], nin[3])
    /\ UNCHANGED <<full, emi, today, last, nreq, origin, nin, threads, users, session>>

NextNorm == Normalize

SpecNorm == InitNorm /\ [][NextNorm]_vars

----------------------------------------------------------------------------
(* Requests served by concurrent threads, statement by statement. Each      *)
(* handler reads a file whole into local rows, changes the local rows and   *)
(* writes the file whole; a sale or buyer edit reads full.csv, reads        *)
(* emi.csv, writes full.csv and then writes emi.csv. A thread may stop      *)
(* between any two of these statements (the process is killed, or a         *)
(* statement raises).                                                        *)

Serving(t, rec) ==
    /\ threads' = [threads EXCEPT ![t] = rec]
    /\ UNCHANGED <<full, emi, today, last, nreq, origin, nin, nout, users, session>>

(* sell_vehicle up to its in-memory update of the loaded rows *)
SellBegin(t, vid, raw_finance, raw_emi, raw_tenure) ==
    LET rows == full
        k == RowIndex(rows, vid)
        terms == normalize_finance_terms(raw_finance, raw_emi, raw_tenure)
        sale_date == isoformat(today)
        buyer_id == next_id(rows, "buyer_id")
    IN  /\ threads[t].pc = "idle"
        /\ k # 0
        /\ Serving(t, [IdleThread EXCEPT
                !.pc = "full_loaded", !.op = "sell_vehicle", !.vid = vid,
                !.terms = terms, !.buyer_id = buyer_id, !.sale_date = sale_date,
                !.created = TRUE, !.pre_full = rows,
                !.rows = [rows EXCEPT ![k] = [@ EXCEPT !.finance_amount = terms[1],
                                                      !.emi_amount = terms[2],
                                                      !.tenure = terms[3],
                                                      !.sale_date = sale_date,
                                                      !.buyer_id = buyer_id,
                                                      !.status = "Sold"]]])

(* edit_buyer up to its in-memory update of the loaded rows *)
EditBegin(t, vid, raw_finance, raw_emi, raw_tenure) ==
    LET rows == full
        k == RowIndex(rows, vid)
        has_buyer == rows[k].buyer_id # Blank
        terms == normalize_finance_terms(raw_finance, raw_emi, raw_tenure)
        created_id == next_id(rows, "buyer_id")
        sale_date_str == IF has_buyer /\ rows[k].sale_date # Blank
                         THEN rows[k].sale_date ELSE isoformat(today)
    IN  /\ threads[t].pc = "idle"
        /\ k # 0
        /\ Serving(t, [IdleThread EXCEPT
                !.pc = "full_loaded", !.op = "edit_buyer", !.vid = vid,
                !.terms = terms,
                !.buyer_id = IF has_buyer THEN to_int(rows[k].buyer_id) ELSE created_id,
                !.old_tenure = IF has_buyer THEN to_int(rows[k].tenure) ELSE 0,
                !.old_emi_amount = IF has_buyer THEN to_int(rows[k].emi_amount) ELSE 0,
                !.sale_date = sale_date_str,
                !.created = ~has_buyer, !.pre_full = rows,
                !.rows = IF has_buyer
                         THEN [rows EXCEPT ![k] = [@ EXCEPT !.finance_amount = terms[1],
                                                           !.emi_amount = terms[2],
                                                           !.tenure = terms[3]]]
                         ELSE [rows EXCEPT ![k] = [@ EXCEPT !.buyer_id = created_id,
                                                           !.finance_amount = terms[1],
                                                           !.tenure = terms[3],
                                                           !.emi_amount = terms[2],
                                                           !.sale_date = sale_date_str]]])

(* toggle_emi up to its in-memory update of the loaded rows *)
ToggleBegin(t, emi_id, action) ==
    LET emis_rows == emi
        k == EmiIndex(emis_rows, emi_id)
    IN  /\ threads[t].pc = "idle"
        /\ Serving(t, [IdleThread EXCEPT
                !.pc = "emi_loaded", !.op = "toggle_emi", !.emi_id = emi_id,
                !.action = action, !.pre_emi = emis_rows,
                !.emis_rows =
                    IF k = 0 THEN emis_rows
                    ELSE IF action = "mark_paid"
                    THEN [emis_rows EXCEPT ![k] = [@ EXCEPT !.status = "Paid",
                                                           !.paid_date = isoformat(today)]]
                    ELSE [emis_rows EXCEPT ![k] = [@ EXCEPT !.status = "Unpaid",
                                                           !.paid_date = Blank]]])

(* a sale or buyer edit loads emi.csv and builds the new installment rows *)
LoadEmi(t) ==
    LET th == threads[t]
        emis_rows == emi
    IN  /\ th.pc = "full_loaded"
        /\ ~th.crashed
        /\ Serving(t, [th EXCEPT
                !.pc = "emi_loaded", !.pre_emi = emis_rows,
                !.emis_rows =
                    IF th.created
                    THEN GenerateEmis(emis_rows, th.buyer_id, 1, th.terms[3],
                                      strptime(th.sale_date), th.terms[2])
                    ELSE ReconcileEmis(emis_rows, th.buyer_id, th.old_tenure,
                                       th.old_emi_amount, th.terms[3], th.terms[2],
                                       strptime(th.sale_date))])

(* save_full_rows(rows) of a sale or buyer edit *)
SaveFull(t) ==
    /\ threads[t].op \in {"sell_vehicle", "edit_buyer"}
    /\ threads[t].pc = "emi_loaded"
    /\ ~threads[t].crashed
    /\ full' = threads[t].rows
    /\ threads' = [threads EXCEPT ![t].pc = "full_saved"]
    /\ UNCHANGED <<emi, today, last, nreq, origin, nin, nout, users, session>>

(* save_emi_rows(emis_rows), the last write of every handler *)
SaveEmi(t) ==
    /\ \/ threads[t].op = "toggle_emi" /\ threads[t].pc = "emi_loaded"
       \/ threads[t].op \in {"sell_vehicle", "edit_buyer"} /\ threads[t].pc = "full_saved"
    /\ ~threads[t].crashed
    /\ emi' = threads[t].emis_rows
    /\ threads' = [threads EXCEPT ![t].pc = "done"]
    /\ UNCHANGED <<full, today, last, nreq, origin, nin, nout, users, session>>

(* the thread stops where it is and never resumes *)
Crash(t) ==
    /\ threads[t].pc \in {"full_loaded", "emi_loaded", "full_saved"}
    /\ ~threads[t].crashed
    /\ Serving(t, [threads[t] EXCEPT !.crashed = TRUE])

(* vehicle 1 sold on instalments to buyer 1; vehicle 2 in stock, or sold on *)
(* one instalment to buyer 2                                                 *)
InitConc ==
    /\ \E sold2 \in BOOLEAN :
          LET r1 == [NoRow EXCEPT !.vehicle_id = 1, !.status = "Sold", !.buyer_id = 1,
                                  !.finance_amount = 1, !.emi_amount = MaxAmount,
                                  !.tenure = MaxTenure, !.sale_date = 20240115]
              r2 == IF sold2
                    THEN [NoRow EXCEPT !.vehicle_id = 2, !.status = "Sold", !.buyer_id = 2,
                                       !.finance_amount = 1, !.emi_amount = MaxAmount,
                                       !.tenure = 1, !.sale_date = 20240115]
                    ELSE [NoRow EXCEPT !.vehicle_id = 2, !.status = "Stock"]
              e1 == GenerateEmis(<< >>, 1, 1, MaxTenure, strptime(20240115), MaxAmount)
          IN  /\ full = <<r1, r2>>
              /\ emi = IF sold2
                       THEN GenerateEmis(e1, 2, 1, 1, strptime(20240115), MaxAmount)
                       ELSE e1
    /\ today = Calendar[1]
    /\ last = NoLast
    /\ nreq = 0
    /\ origin = [id \in EmiIds |-> 0]
    /\ nin = <<0, 0, 0>>
    /\ nout = <<0, 0, 0>>
    /\ threads = IdleThreads
    /\ users = SeedUsers
    /\ session = NoSessions

NextConc ==
    \E t \in Workers :
        \/ \E vid \in VehicleIds, f \in RawFinance, e \in RawAmounts, n \in RawTenures :
              SellBegin(t, vid, f, e, n)
        \/ \E vid \in VehicleIds, f \in RawFinance, e \in RawAmounts, n \in RawTenures :
              EditBegin(t, vid, f, e, n)
        \/ \E emi_id \in EmiIds, action \in ToggleActions : ToggleBegin(t, emi_id, action)
        \/ LoadEmi(t)
        \/ SaveFull(t)
        \/ SaveEmi(t)
        \/ Crash(t)

SpecConc == InitConc /\ [][NextConc]_vars

----------------------------------------------------------------------------
(* Accounts and sessions. A login copies the stored role into the session   *)
(* cookie; the admin_required decorator of every changing request reads the *)
(* cookie. add_vehicle stands for the requests that change vehicle, buyer   *)
(* and installment records, all of which carry the same decorator.          *)

UserRoles == {"admin", "user"}
UserIds == 1..Len(SeedUsers)

admin_required(c) == session[c].user_id # 0 /\ session[c].role = "admin"

(* the request is answered with a redirect to the login page or with 403 *)
Refused(c) ==
    /\ last' = [Stamp("refused", 0) EXCEPT !.who = session[c].user_id]
    /\ UNCHANGED <<full, emi, today, origin, nin, nout, threads, users, session>>

login(c, uid) ==
    /\ Step
    /\ \E u \in 1..Len(users) :
          /\ users[u].id = uid
          /\ session' = [session EXCEPT ![c] = [user_id |-> users[u].id,
                                                role |-> users[u].role]]
    /\ last' = [Stamp("login", 0) EXCEPT !.who = uid]
    /\ UNCHANGED <<full, emi, today, origin, nin, nout, threads, users>>

logout(c) ==
    /\ Step
    /\ session[c] # NoSession
    /\ session' = [session EXCEPT ![c] = NoSession]
    /\ last' = [Stamp("logout", 0) EXCEPT !.who = session[c].user_id]
    /\ UNCHANGED <<full, emi, today, origin, nin, nout, threads, users>>

add_vehicle_as(c) ==
    /\ Step
    /\ IF admin_required(c)
       THEN /\ Len(full) < MaxVehicles
            /\ full' = Append(full, [NoRow EXCEPT !.vehicle_id = next_id(full, "vehicle_id"),
                                                  !.status = "Stock"])
            /\ last' = [Stamp("add_vehicle", next_id(full, "vehicle_id")) EXCEPT
                            !.who = session[c].user_id]
            /\ UNCHANGED <<emi, today, origin, nin, nout, threads, users, session>>
       ELSE Refused(c)

admin_users_edit(c, uid, role) ==
    /\ Step
    /\ IF admin_required(c)
       THEN /\ users' = [u \in 1..Len(users) |->
                            IF users[u].id = uid THEN [users[u] EXCEPT !.role = role]
                            ELSE users[u]]
            /\ last' = [Stamp("edit_user", uid) EXCEPT !.who = session[c].user_id]
            /\ UNCHANGED <<full, emi, today, origin, nin, nout, threads, session>>
       ELSE Refused(c)

admin_users_delete(c, uid) ==
    /\ Step
    /\ IF admin_required(c)
       THEN /\ users' = IF session[c].user_id = uid THEN users
                        ELSE SelectSeq(users, LAMBDA u : u.id # uid)
            /\ last' = [Stamp("delete_user", uid) EXCEPT !.who = session[c].user_id]
            /\ UNCHANGED <<full, emi, today, origin, nin, nout, threads, session>>
       ELSE Refused(c)

NextAuth ==
    \E c \in Clients :
        \/ \E uid \in UserIds : login(c, uid)
        \/ logout(c)
        \/ add_vehicle_as(c)
        \/ \E uid \in UserIds, role \in UserRoles : admin_users_edit(c, uid, role)
        \/ \E uid \in UserIds : admin_users_delete(c, uid)

SpecAuth == Init /\ [][NextAuth]_vars

----------------------------------------------------------------------------
(* Properties *)

Idx(rows) == 1..Len(rows)
BuyerRows(rows, b) == {i \in Idx(rows) : rows[i].buyer_id = b}
HasId(rows, id) == \E i \in Idx(rows) : rows[i].id = id
StoredRow(rows, vid) == rows[RowIndex(rows, vid)]

(* C1: no two stored installments of the same buyer have the same sequence  *)
(* number (emi_no), in every reachable state.                                *)
C1_UniqueEmiNo ==
    \A i, j \in Idx(emi) :
        (i # j /\ emi[i].buyer_id = emi[j].buyer_id) => emi[i].emi_no # emi[j].emi_no

(* C2: after a buyer edit whose installment amount differs from the stored  *)
(* one, every paid installment of the buyer is still stored with the amount *)
(* it had, and every stored unpaid installment of the buyer has the new     *)
(* amount.                                                                   *)
C2_RepricePaidImmutable ==
    [][(last'.op = "edit_buyer"
        /\ last'.terms[2] # to_int(StoredRow(full, last'.vid).emi_amount))
       => LET b == to_int(StoredRow(full, last'.vid).buyer_id)
          IN  /\ \A i \in BuyerRows(emi, b) :
                    emi[i].status = "Paid" =>
                        \E j \in Idx(emi') : /\ emi'[j].id = emi[i].id
                                             /\ emi'[j].status = "Paid"
                                             /\ emi'[j].amount = emi[i].amount
              /\ \A j \in BuyerRows(emi', b) :
                    emi'[j].status # "Paid" => emi'[j].amount = last'.terms[2]]_vars

C2_Witness ==
    /\ last.op = "edit_buyer"
    /\ last.terms[2] # last.old_emi_amount
    /\ \E i, j \in BuyerRows(emi, last.buyer_id) :
          /\ emi[i].status = "Paid" /\ emi[i].amount # last.terms[2]
          /\ emi[j].status # "Paid"

(* C3: a buyer edit that reduces the tenure to n removes exactly the        *)
(* buyer's unpaid installments with sequence number > n; every other        *)
(* installment is still stored, and no installment is added.                *)
C3_ShrinkRemovesUnpaidTail ==
    [][(last'.op = "edit_buyer"
        /\ last'.terms[3] < to_int(StoredRow(full, last'.vid).tenure))
       => LET b == to_int(StoredRow(full, last'.vid).buyer_id)
              n == last'.terms[3]
          IN  /\ \A i \in Idx(emi) :
                    HasId(emi', emi[i].id) <=>
                        ~(emi[i].buyer_id = b /\ emi[i].emi_no > n
                          /\ emi[i].status # "Paid")
              /\ \A j \in Idx(emi') : HasId(emi, emi'[j].id)
              /\ \A i \in Idx(emi), j \in Idx(emi') :
                    emi'[j].id = emi[i].id =>
                        /\ emi'[j].emi_no = emi[i].emi_no
                        /\ emi'[j].status = emi[i].status
                        /\ emi'[j].buyer_id = emi[i].buyer_id]_vars

C3_Witness ==
    /\ last.op = "edit_buyer"
    /\ last.terms[3] < last.old_tenure
    /\ last.terms[3] >= 1
    /\ Len(emi) < MaxEmis
    /\ \E i \in BuyerRows(emi, last.buyer_id) :
          emi[i].status = "Paid" /\ emi[i].emi_no > last.terms[3]
    /\ \E i \in BuyerRows(emi, last.buyer_id) : emi[i].emi_no <= last.terms[3]

(* C4: a buyer edit that raises the tenure from t to n appends exactly one  *)
(* installment for each sequence number t+1..n: unpaid, with the new        *)
(* amount, due on the stored sale date advanced by its sequence number in   *)
(* months, whatever the date of the edit.  Sale date 2024-01-15, sequence   *)
(* number 2: due 2024-03-15.                                                 *)
C4_GrowAppendsFromSaleDate ==
    [][(last'.op = "edit_buyer"
        /\ last'.terms[3] > to_int(StoredRow(full, last'.vid).tenure))
       => LET row == StoredRow(full, last'.vid)
              b == to_int(row.buyer_id)
              t == to_int(row.tenure)
              n == last'.terms[3]
          IN  /\ Len(emi') = Len(emi) + (n - t)
              /\ \A i \in Idx(emi) : emi'[i].id = emi[i].id
              /\ \A k \in (t + 1)..n :
                    LET r == emi'[Len(emi) + (k - t)]
                    IN  /\ r.buyer_id = b
                        /\ r.emi_no = k
                        /\ r.status = "Unpaid"
                        /\ r.paid_date = Blank
                        /\ r.amount = last'.terms[2]
                        /\ r.due_date = isoformat(add_months(strptime(row.sale_date), k))
                        /\ (row.sale_date = 20240115 /\ k = 2) => r.due_date = 20240315
                        /\ ~HasId(emi, r.id)]_vars

C4_Witness ==
    /\ last.op = "edit_buyer"
    /\ last.terms[3] > last.old_tenure
    /\ last.old_tenure >= 1
    /\ last.sale_date = 20240115
    /\ last.sale_date # isoformat(today)
    /\ \E i \in BuyerRows(emi, last.buyer_id) :
          emi[i].emi_no = last.terms[3] /\ emi[i].due_date = 20240315

(* C5: a sale, or a buyer creation through the buyer-edit form, with        *)
(* normalized tenure n appends exactly n installments for the new buyer,    *)
(* numbered 1..n in order, unpaid, without paid date, with the normalized   *)
(* installment amount; for n = 0 it appends none.                            *)
C5_SaleCreatesSchedule ==
    [][(last'.op \in {"sell_vehicle", "create_buyer"})
       => LET n == last'.terms[3]
          IN  /\ Len(emi') = Len(emi) + n
              /\ \A i \in Idx(emi) : emi'[i] = emi[i]
              /\ \A k \in 1..n :
                    LET r == emi'[Len(emi) + k]
                    IN  /\ r.buyer_id = last'.buyer_id
                        /\ r.emi_no = k
                        /\ r.status = "Unpaid"
                        /\ r.paid_date = Blank
                        /\ r.amount = last'.terms[2]]_vars

C5_Witness ==
    /\ last.op = "sell_vehicle"
    /\ last.terms[3] = MaxTenure
    /\ Cardinality(BuyerRows(emi, last.buyer_id)) = MaxTenure

(* C6: a buyer edit whose normalized installment amount and tenure equal    *)
(* the stored ones leaves the stored installments exactly unchanged.        *)
C6_EditSameTermsNoChange ==
    [][(last'.op = "edit_buyer"
        /\ last'.terms[2] = to_int(StoredRow(full, last'.vid).emi_amount)
        /\ last'.terms[3] = to_int(StoredRow(full, last'.vid).tenure))
       => emi' = emi]_vars

C6_Witness ==
    /\ last.op = "edit_buyer"
    /\ last.terms[2] = last.old_emi_amount
    /\ last.terms[3] = last.old_tenure
    /\ last.old_tenure >= 1
    /\ \E i, j \in BuyerRows(emi, last.buyer_id) :
          emi[i].status = "Paid" /\ emi[j].status # "Paid"

(* C7: normalize_finance_terms equals the reference: clamp each input at 0; *)
(* (0, 0, 0) when the clamped finance amount is 0, the clamped triple       *)
(* otherwise.  Finance amount <= 0 gives installment amount 0 and tenure 0, *)
(* and no component is negative.                                             *)
C7_NormalizeReference ==
    nout # << >> =>
        LET f == nin[1]
            e == nin[2]
            t == nin[3]
        IN  /\ (f <= 0) => nout = <<0, 0, 0>>
            /\ (f > 0) => /\ nout[1] = f
                          /\ nout[2] = (IF e < 0 THEN 0 ELSE e)
                          /\ nout[3] = (IF t < 0 THEN 0 ELSE t)
            /\ \A c \in 1..3 : nout[c] >= 0

C7_Witness ==
    /\ nout # << >>
    /\ nin[1] <= 0
    /\ nin[2] > 0
    /\ nin[3] > 0

(* C8: a buyer whose stored tenure is 0 has no stored installments, in      *)
(* every reachable state.                                                    *)
C8_CashSaleNoInstallments ==
    \A k \in Idx(full) :
        (full[k].buyer_id # Blank /\ to_int(full[k].tenure) = 0)
            => BuyerRows(emi, full[k].buyer_id) = {}

(* C9: every stored installment references a buyer currently recorded on a  *)
(* stored vehicle row, in every reachable state.                             *)
C9_NoOrphanInstallments ==
    \A i \in Idx(emi) : \E k \in Idx(full) : full[k].buyer_id = emi[i].buyer_id

(* C10: after delete_vehicle(v), no stored installment was created for      *)
(* vehicle v, the row of v is gone, and the installments created for other  *)
(* vehicles are unchanged.                                                   *)
C10_DeleteCascades ==
    [][(last'.op = "delete_vehicle")
       => /\ \A j \in Idx(emi') : origin'[emi'[j].id] # last'.vid
          /\ RowIndex(full', last'.vid) = 0
          /\ \A i \in Idx(emi) :
                origin[emi[i].id] # last'.vid =>
                    \E j \in Idx(emi') : emi'[j] = emi[i]]_vars

(* C11: a paid installment stays stored, paid, with the same sequence       *)
(* number, due date and amount across every step, except the step that      *)
(* marks it unpaid and the step that deletes the vehicle carrying its buyer. *)
C11_PaidInstallmentStable ==
    [][\A i \in Idx(emi) :
        emi[i].status = "Paid" =>
            \/ \E j \in Idx(emi') : /\ emi'[j].id = emi[i].id
                                    /\ emi'[j].status = "Paid"
                                    /\ emi'[j].buyer_id = emi[i].buyer_id
                                    /\ emi'[j].emi_no = emi[i].emi_no
                                    /\ emi'[j].due_date = emi[i].due_date
                                    /\ emi'[j].amount = emi[i].amount
            \/ /\ last'.op = "toggle_emi"
               /\ last'.emi_id = emi[i].id
               /\ last'.action # "mark_paid"
            \/ /\ last'.op = "delete_vehicle"
               /\ \E k \in Idx(full) : /\ to_int(full[k].vehicle_id) = last'.vid
                                       /\ full[k].buyer_id = emi[i].buyer_id]_vars

C11_Witness ==
    /\ last.op = "edit_buyer"
    /\ last.terms[1] = 0
    /\ last.old_tenure >= 1
    /\ last.old_emi_amount >= 1
    /\ \E i \in BuyerRows(emi, last.buyer_id) :
          emi[i].status = "Paid" /\ emi[i].amount = last.old_emi_amount

(* C12: for every buyer with stored tenure n, each sequence number 1..n is  *)
(* present among the buyer's stored installments.                            *)
C12_NoGapWithinTenure ==
    \A k \in Idx(full) :
        full[k].buyer_id # Blank =>
            \A n \in 1..to_int(full[k].tenure) :
                \E i \in BuyerRows(emi, full[k].buyer_id) : emi[i].emi_no = n

C12_Witness ==
    /\ last.op = "edit_buyer"
    /\ last.terms[3] = MaxTenure
    /\ last.old_tenure = 0
    /\ \E i \in BuyerRows(emi, last.buyer_id) : emi[i].status = "Paid"
    /\ \E k \in Idx(full) : /\ full[k].buyer_id = last.buyer_id
                            /\ to_int(full[k].tenure) = MaxTenure

(* C18: the due date of installment i of a sale on date d is d moved on by  *)
(* i calendar months, the day clamped to the length of the target month,    *)
(* each counted from d itself; a sale on 2024-01-31 with tenure 3 is due on *)
(* 2024-02-29, 2024-03-31 and 2024-04-30.                                    *)
C18_DueDatesFromSaleDate ==
    last.op = "sell_vehicle" =>
        /\ \A i \in BuyerRows(emi, last.buyer_id) :
              LET d == last.sale_date
                  months == (d \div 10000) * 12 + (((d \div 100) % 100) - 1) + emi[i].emi_no
                  y == months \div 12
                  m == (months % 12) + 1
                  day == IF d % 100 <= DaysInMonth(y, m) THEN d % 100
                         ELSE DaysInMonth(y, m)
              IN  emi[i].due_date = y * 10000 + m * 100 + day
        /\ (last.sale_date = 20240131 /\ last.terms[3] = 3)
              => /\ Len(emi) = 3
                 /\ emi[1].due_date = 20240229
                 /\ emi[2].due_date = 20240331
                 /\ emi[3].due_date = 20240430

C18_Witness ==
    /\ last.op = "sell_vehicle"
    /\ last.sale_date = 20240131
    /\ last.terms[3] = 3
    /\ Len(emi) = 3
    /\ emi[2].emi_no = 2
    /\ emi[2].due_date = 20240331

(* C19: among the stored installments of one buyer the due dates increase   *)
(* strictly with the sequence number: an installment numbered i is due      *)
(* before every installment of the same buyer numbered i + 1.                *)
C19_DueDatesIncreasing ==
    \A i, j \in Idx(emi) :
        (emi[i].buyer_id = emi[j].buyer_id /\ emi[j].emi_no = emi[i].emi_no + 1)
            => emi[i].due_date < emi[j].due_date

(* the stored installments of buyer b have a gap in their sequence numbers *)
(* or two rows with the same sequence number                                *)
ScheduleBroken(rows, b) ==
    \/ \E i, j \in BuyerRows(rows, b) : i # j /\ rows[i].emi_no = rows[j].emi_no
    \/ \E i \in BuyerRows(rows, b) :
          \E n \in 1..(rows[i].emi_no - 1) :
              \A j \in BuyerRows(rows, b) : rows[j].emi_no # n

(* C20: a buyer edit on a buyer whose stored installments have a gap or a   *)
(* repeated sequence number is rejected: the buyer record and every stored  *)
(* installment stay as they were.                                            *)
C20_BrokenScheduleRejected ==
    [][(last'.op = "edit_buyer" /\ ScheduleBroken(emi, last'.buyer_id))
       => (full' = full /\ emi' = emi)]_vars

(* C16: every vehicle that has a buyer with at least one stored installment *)
(* shown as Overdue on the current date is counted in the EMI pending       *)
(* metric and listed under the EMI_PENDING filter, whether the buyer came   *)
(* from a sale or from the buyer-edit form.                                  *)
C16_OverdueBuyerIsEmiPending ==
    LET pending == {k \in Idx(full) :
                      /\ full[k].buyer_id # Blank
                      /\ \E i \in BuyerRows(emi, full[k].buyer_id) :
                            derive_emi_status(emi[i], today) = "Overdue"}
    IN  /\ emi_pending(full, emi) = Cardinality(pending)
        /\ pending \subseteq filtered_vehicle_rows(full, "EMI_PENDING", overdue_buyer_ids(emi))

(* C17: derive_emi_status gives one of the five labels, and the one the     *)
(* reference gives: Paid for a paid installment whatever its due date, else *)
(* Unpaid for an absent or unparsable due date, else Overdue, Due Today or  *)
(* Upcoming as the due date is before, on or after the current date.        *)
C17_StatusReference ==
    nout # "" =>
        LET paid == nin[1] \in {"Paid", "paid", " PAID "}
            no_due == nin[2] \in {Blank, 20240230, 20231301}
            cur == today[1] * 10000 + today[2] * 100 + today[3]
        IN  /\ nout \in {"Paid", "Unpaid", "Overdue", "Due Today", "Upcoming"}
            /\ nout = (IF paid THEN "Paid"
                       ELSE IF no_due THEN "Unpaid"
                       ELSE IF nin[2] < cur THEN "Overdue"
                       ELSE IF nin[2] = cur THEN "Due Today"
                       ELSE "Upcoming")

C17_Witness ==
    /\ nin = <<" PAID ", 20240130>>
    /\ today = <<2024, 6, 20>>
    /\ nout = "Paid"

(* the stored installments of buyer b, as a set of rows *)
BuyerSet(rows, b) == {rows[i] : i \in BuyerRows(rows, b)}

(* C13: a sale or buyer edit that stops part-way leaves in the files either *)
(* nothing of the request or all of it: never the buyer record it wrote     *)
(* with the installments as they were, nor the reverse.                      *)
C13_SaleOrEditAtomic ==
    \A t \in Workers :
        (/\ threads[t].crashed
         /\ threads[t].op \in {"sell_vehicle", "edit_buyer"}
         /\ threads[t].pc \in {"emi_loaded", "full_saved"}
         /\ \A u \in Workers \ {t} : threads[u].pc = "idle")
        => \/ full = threads[t].pre_full /\ emi = threads[t].pre_emi
           \/ full = threads[t].rows /\ emi = threads[t].emis_rows

(* C14: when a toggle of an installment and a request about another buyer   *)
(* or another installment have both completed, the files show the effect of *)
(* both: the toggled status, and the other request's status, or its buyer   *)
(* record and installments.                                                  *)
C14_ToggleIndependent ==
    \A t, u \in Workers :
        (/\ t # u
         /\ threads[t].pc = "done" /\ threads[u].pc = "done"
         /\ threads[t].op = "toggle_emi"
         /\ EmiIndex(threads[t].pre_emi, threads[t].emi_id) # 0
         /\ IF threads[u].op = "toggle_emi"
            THEN /\ threads[u].emi_id # threads[t].emi_id
                 /\ EmiIndex(threads[u].pre_emi, threads[u].emi_id) # 0
            ELSE threads[u].buyer_id #
                 threads[t].pre_emi[EmiIndex(threads[t].pre_emi, threads[t].emi_id)].buyer_id)
        => /\ \E i \in Idx(emi) :
                 /\ emi[i].id = threads[t].emi_id
                 /\ emi[i].status = (IF threads[t].action = "mark_paid"
                                     THEN "Paid" ELSE "Unpaid")
           /\ IF threads[u].op = "toggle_emi"
              THEN \E i \in Idx(emi) :
                      /\ emi[i].id = threads[u].emi_id
                      /\ emi[i].status = (IF threads[u].action = "mark_paid"
                                          THEN "Paid" ELSE "Unpaid")
              ELSE /\ StoredRow(full, threads[u].vid) = StoredRow(threads[u].rows, threads[u].vid)
                   /\ BuyerSet(emi, threads[u].buyer_id)
                        = BuyerSet(threads[u].emis_rows, threads[u].buyer_id)

(* C15: when two buyer edits of the same buyer have both completed, the     *)
(* stored terms and the buyer's stored installments are those written by    *)
(* one and the same of the two requests.                                     *)
C15_LastWriteWins ==
    \A t, u \in Workers :
        (/\ t # u
         /\ threads[t].pc = "done" /\ threads[u].pc = "done"
         /\ threads[t].op = "edit_buyer" /\ threads[u].op = "edit_buyer"
         /\ ~threads[t].created /\ ~threads[u].created
         /\ threads[t].vid = threads[u].vid)
        => \E w \in {t, u} :
              /\ StoredRow(full, threads[w].vid) = StoredRow(threads[w].rows, threads[w].vid)
              /\ BuyerSet(emi, threads[w].buyer_id)
                   = BuyerSet(threads[w].emis_rows, threads[w].buyer_id)

(* C21: a vehicle that has a buyer keeps that buyer, with the same buyer id *)
(* and sale date, across every step except the deletion of the vehicle.     *)
C21_BuyerKept ==
    [][\A k \in Idx(full) :
        full[k].buyer_id # Blank =>
            \/ \E j \in Idx(full') : /\ full'[j].vehicle_id = full[k].vehicle_id
                                     /\ full'[j].buyer_id = full[k].buyer_id
                                     /\ full'[j].sale_date = full[k].sale_date
            \/ /\ last'.op = "delete_vehicle"
               /\ last'.vid = to_int(full[k].vehicle_id)]_vars

(* C22: the ids of the stored installments are pairwise distinct.           *)
C22_UniqueEmiIds ==
    \A i, j \in Idx(emi) : emi[i].id = emi[j].id => i = j

C22_Witness ==
    /\ last.op \in {"sell_vehicle", "create_buyer", "edit_buyer"}
    /\ Len(emi) >= 2
    /\ emi[Len(emi)].buyer_id = last.buyer_id
    /\ emi[Len(emi)].id > Len(emi)

(* C23: a toggle changes nothing but the status and paid date of the        *)
(* installment with the given id: mark_paid stores Paid and the current     *)
(* date, any other action stores Unpaid and no paid date; every other       *)
(* field and row, and every vehicle record, stay; with no such id nothing   *)
(* changes.                                                                  *)
C23_ToggleFrame ==
    [][last'.op = "toggle_emi"
       => /\ full' = full
          /\ Len(emi') = Len(emi)
          /\ Cardinality({i \in Idx(emi) : emi[i].id = last'.emi_id}) <= 1
          /\ \A i \in Idx(emi) :
                IF emi[i].id = last'.emi_id
                THEN emi'[i] = [emi[i] EXCEPT
                         !.status = IF last'.action = "mark_paid" THEN "Paid" ELSE "Unpaid",
                         !.paid_date = IF last'.action = "mark_paid"
                                       THEN today[1] * 10000 + today[2] * 100 + today[3]
                                       ELSE Blank]
                ELSE emi'[i] = emi[i]]_vars

C23_Witness ==
    /\ last.op = "toggle_emi"
    /\ last.action = "mark_paid"
    /\ Len(emi) >= 2
    /\ \E i, j \in Idx(emi) : /\ emi[i].id = last.emi_id
                              /\ emi[i].status = "Paid"
                              /\ emi[i].paid_date = 20240620
                              /\ emi[j].status = "Unpaid"

(* C24: a buyer edit keeps, on every installment it keeps, the sequence     *)
(* number, due date, status, paid date and buyer; keeps every paid          *)
(* installment whole; keeps the buyer id and sale date of the buyer; and    *)
(* changes no amount but those of this buyer's unpaid installments.          *)
C24_EditFrame ==
    [][last'.op = "edit_buyer"
       => /\ \A i \in Idx(emi), j \in Idx(emi') :
                emi'[j].id = emi[i].id
                => /\ emi'[j].emi_no = emi[i].emi_no
                   /\ emi'[j].due_date = emi[i].due_date
                   /\ emi'[j].status = emi[i].status
                   /\ emi'[j].paid_date = emi[i].paid_date
                   /\ emi'[j].buyer_id = emi[i].buyer_id
                   /\ (emi[i].status = "Paid" => emi'[j] = emi[i])
                   /\ (emi[i].buyer_id # last'.buyer_id => emi'[j] = emi[i])
          /\ StoredRow(full', last'.vid).buyer_id = StoredRow(full, last'.vid).buyer_id
          /\ StoredRow(full', last'.vid).sale_date = StoredRow(full, last'.vid).sale_date]_vars

C24_Witness ==
    /\ last.op = "edit_buyer"
    /\ last.terms[2] # last.old_emi_amount
    /\ last.terms[3] = last.old_tenure
    /\ last.old_tenure = MaxTenure
    /\ \E i, j \in BuyerRows(emi, last.buyer_id) :
          /\ emi[i].status = "Paid" /\ emi[i].amount = last.old_emi_amount
          /\ emi[j].status = "Unpaid" /\ emi[j].amount = last.terms[2]

(* C25: every unpaid installment of a buyer has the installment amount      *)
(* stored on the buyer's record.                                             *)
C25_UnpaidAmountIsBuyerAmount ==
    \A k \in Idx(full) :
        full[k].buyer_id # Blank =>
            \A i \in BuyerRows(emi, full[k].buyer_id) :
                emi[i].status # "Paid" => emi[i].amount = to_int(full[k].emi_amount)

(* C26: every unpaid installment of a buyer has a sequence number no larger *)
(* than the tenure stored on the buyer's record.                             *)
C26_UnpaidWithinTenure ==
    \A k \in Idx(full) :
        full[k].buyer_id # Blank =>
            \A i \in BuyerRows(emi, full[k].buyer_id) :
                emi[i].status # "Paid" => emi[i].emi_no <= to_int(full[k].tenure)

(* C27: a buyer-edit request naming a vehicle id that has no vehicle record *)
(* leaves the vehicle records and the stored installments as they were.     *)
C27_EditMissingVehicleNoChange ==
    [][(last'.op \in {"create_buyer", "edit_buyer"} /\ RowIndex(full, last'.vid) = 0)
       => (full' = full /\ emi' = emi)]_vars

(* C28: an installment has a paid date exactly when its status is Paid.     *)
C28_PaidDateIffPaid ==
    \A i \in Idx(emi) : (emi[i].paid_date # Blank) <=> (emi[i].status = "Paid")

C28_Witness ==
    /\ last.op = "toggle_emi"
    /\ last.action = "mark_unpaid"
    /\ \E i, j \in Idx(emi) :
          /\ emi[i].id = last.emi_id
          /\ emi[i].status = "Unpaid" /\ emi[i].paid_date = Blank
          /\ emi[j].status = "Paid" /\ emi[j].paid_date # Blank

(* C30: a sale, buyer edit or toggle that concerns one buyer leaves the     *)
(* stored installments of every other buyer, and the record of every other  *)
(* vehicle, exactly as they were.                                            *)
C30_OtherBuyersUntouched ==
    [][last'.op \in {"sell_vehicle", "create_buyer", "edit_buyer", "toggle_emi"}
       => LET concerned ==
                  IF last'.op = "toggle_emi"
                  THEN {emi[i].buyer_id : i \in {j \in Idx(emi) : emi[j].id = last'.emi_id}}
                  ELSE {last'.buyer_id}
              Other(r) == r.buyer_id \notin concerned
          IN  /\ SelectSeq(emi', Other) = SelectSeq(emi, Other)
              /\ Len(full') = Len(full)
              /\ \A k \in Idx(full) :
                    (last'.op = "toggle_emi" \/ to_int(full[k].vehicle_id) # last'.vid)
                        => full'[k] = full[k]]_vars

C30_Witness ==
    /\ last.op = "edit_buyer"
    /\ last.terms[3] < last.old_tenure
    /\ last.terms[2] # last.old_emi_amount
    /\ \E i \in Idx(emi) : /\ emi[i].buyer_id # last.buyer_id
                           /\ emi[i].status = "Unpaid"
                           /\ emi[i].emi_no > last.terms[3]
                           /\ emi[i].amount # last.terms[2]
    /\ \E k \in Idx(full) : /\ to_int(full[k].vehicle_id) # last.vid
                            /\ full[k].buyer_id # Blank

(* C29: a step changes vehicle, installment or user records only when the   *)
(* account of the requesting session is stored with role admin at the time  *)
(* of the request.                                                           *)
C29_OnlyStoredAdminsChange ==
    [][(full' # full \/ emi' # emi \/ users' # users)
       => \E u \in 1..Len(users) : /\ users[u].id = last'.who
                                   /\ users[u].role = "admin"]_vars

====
